---------------------------- MODULE Spec2Model ----------------------------
(***************************************************************************)
(* A model of the OperationCenter MCP gateway (src/app.py): the middleware *)
(* pipeline of the Starlette app, the bearer-token gate, the logging       *)
(* middleware of the mounted protocol app, the tenant-list resource and    *)
(* the compute_health tool.                                                *)
(*                                                                         *)
(* Strings the code inspects character by character (paths, header values, *)
(* tokens) are sequences of one-character strings.  An optional string     *)
(* (headers.get) is a record [some, val].  Time is an integer number of    *)
(* ticks; a UTC offset is a number of ticks east of UTC.                   *)
(***************************************************************************)
EXTENDS Integers, Sequences, FiniteSets, TLC

VARIABLES TOKEN, tenantsFile, req, frame

vars == <<TOKEN, tenantsFile, req, frame>>

-----------------------------------------------------------------------------
(* Bounds of the model *)

\* requests in flight at once in the concurrent specification
MaxConcurrent == 2
\* the clock, the createdAt wall-clock readings and the thresholds range over 0..MaxTime
MaxTime == 3
\* the largest UTC offset of a createdAt, east or west, in ticks
MaxOffset == 2

Slots == 1..MaxConcurrent

-----------------------------------------------------------------------------
(* String helpers: Python's str operations used by the code *)

StartsWith(s, p) == Len(s) >= Len(p) /\ SubSeq(s, 1, Len(p)) = p

\* str.split(' '): cut at every single space, empty fields kept
RECURSIVE SplitFrom(_, _, _)
SplitFrom(s, i, cur) ==
    IF i > Len(s) THEN <<cur>>
    ELSE IF s[i] = " " THEN <<cur>> \o SplitFrom(s, i + 1, <<>>)
    ELSE SplitFrom(s, i + 1, Append(cur, s[i]))

Split(s) == SplitFrom(s, 1, <<>>)

None == [some |-> FALSE, val |-> <<>>]
Some(s) == [some |-> TRUE, val |-> s]

\* Python truthiness of an optional string: None and '' are falsy
Falsy(h) == ~h.some \/ h.val = <<>>

-----------------------------------------------------------------------------
(* Literals of the program and the inputs the requests are drawn from *)

Root == <<"/">>
ApiDiscovery == <<"/","a","p","i","/","d","i","s","c","o","v","e","r","y">>
ApiMcpStatus == <<"/","a","p","i","/","m","c","p","-","s","t","a","t","u","s">>
McpPrefix == <<"/","m","c","p">>
BearerSp == <<"B","e","a","r","e","r"," ">>

DevToken == <<"d","e","v","-","t","o","k","e","n">>
SpacedToken == <<"a"," ","b">>
\* the values BEARER_TOKEN may configure: the default and a secret holding a space
Tokens == {DevToken, SpacedToken}

AllowList == {Root, ApiDiscovery, ApiMcpStatus}

Paths ==
    AllowList \cup
    { McpPrefix, McpPrefix \o <<"/">>, McpPrefix \o <<"/","x">>, McpPrefix \o <<"x">>,
      <<"/","m","c">>, <<"/","o","t","h","e","r">> }

AuthHeaders ==
    { None,
      Some(<<>>),
      Some(BearerSp \o DevToken),
      Some(BearerSp \o SpacedToken),
      Some(BearerSp \o DevToken \o <<" ","x">>),
      Some(BearerSp \o <<" ">> \o DevToken),
      Some(BearerSp \o <<"d","e","v">>),
      Some(<<"B","e","a","r","e","r">>),
      Some(<<"b","e","a","r","e","r"," ">> \o DevToken),
      Some(<<"B","a","s","i","c"," ">> \o DevToken),
      Some(DevToken) }

\* plain: no Origin header; cors: Origin present; preflight: OPTIONS with Origin and
\* Access-Control-Request-Method
Kinds == {"plain", "cors", "preflight"}


\* unexpected failures of the protocol app (str(e) of the exception raised)
Faults == {"Task group is not initialized", "upstream unreachable"}

\* the JSON-RPC id the client puts in its envelope
RpcId == 1

NoId == [some |-> FALSE, val |-> 0]

\* createdAt strings: an ISO timestamp is its wall-clock reading with an optional
\* UTC offset; NotIso is a string fromisoformat cannot parse
NoOffset == [some |-> FALSE, val |-> 0]
Offsets == {NoOffset} \cup {Some(o) : o \in {-MaxOffset, 0, MaxOffset}}
NotIso == [valid |-> FALSE, wall |-> 0, offset |-> NoOffset]
CreatedAts ==
    {[valid |-> TRUE, wall |-> w, offset |-> o] : w \in 0..MaxTime, o \in Offsets}
    \cup {NotIso}
Thresholds == -1..MaxTime
Clock == 0..MaxTime

Cursors == {None, Some(<<"c","1">>)}

-----------------------------------------------------------------------------
(* The middleware pipeline of the app *)

\* Starlette.add_middleware puts the new middleware at the front of
\* user_middleware, and the stack is built so that the front one is outermost
AddMiddleware(user_middleware, m) == <<m>> \o user_middleware

\* outermost first: CORSMiddleware is added first, BearerTokenMiddleware after it
Pipeline == AddMiddleware(AddMiddleware(<<>>, "CORS"), "Bearer")

-----------------------------------------------------------------------------
(* BearerTokenMiddleware.dispatch *)

ErrMissing == "Missing or invalid Authorization header"
ErrInvalid == "Invalid bearer token"

\* variant: token-gated by default, every path is examined
NeedsAuthAll(path) == TRUE

\* variant: only the mount point and the paths below it are examined
NeedsAuthSegment(path) ==
    path \notin AllowList /\ (path = McpPrefix \/ StartsWith(path, McpPrefix \o <<"/">>))

\* the request is subject to the token check: not allow-listed, and under '/mcp'
NeedsAuth(path) == path \notin AllowList /\ StartsWith(path, McpPrefix)

\* variant: the scheme is not looked at
MalformedNoScheme(h) == Falsy(h)

\* not auth_header or not auth_header.startswith('Bearer ')
Malformed(h) == Falsy(h) \/ ~StartsWith(h.val, BearerSp)

\* variant: auth_header and token kept in one place shared by all requests
FrameShared(r) == 1

\* the locals auth_header and token live in the frame of the request's own call
FrameOf(r) == r

NoFrame == [auth_header |-> None, token |-> <<>>]

\* responses
NoBody == [tag |-> "none", text |-> "", code |-> 0, id |-> NoId, data |-> <<>>]
NoResp == [status |-> 0, body |-> NoBody, cors |-> FALSE]
ErrorBody(msg) == [NoBody EXCEPT !.tag = "error", !.text = msg]

Idle ==
    [pc |-> "idle", stage |-> 0, path |-> <<>>, auth |-> None, kind |-> "plain",
     gate |-> "pending", checked |-> FALSE, calledNext |-> FALSE, corsWrap |-> FALSE,
     rpc |-> "none", createdAt |-> NotIso, threshold |-> 0, now |-> 0, cursor |-> None,
     raised |-> FALSE, exc |-> "", resp |-> NoResp]

\* a middleware or handler returns a response; on its way out it passes the CORS
\* stage if that stage was entered with an Origin header, which adds the headers
Respond(q, status, body) ==
    [q EXCEPT !.pc = "done", !.resp = [status |-> status, body |-> body, cors |-> q.corsWrap]]

\* an incoming request enters the outermost middleware
Receive(r, P, H, K) ==
    /\ req[r].pc = "idle"
    /\ \E p \in P, h \in H, k \in K :
         req' = [req EXCEPT ![r] =
                   [Idle EXCEPT !.pc = "pipeline", !.stage = 1,
                                !.path = p, !.auth = h, !.kind = k]]
    /\ UNCHANGED <<TOKEN, tenantsFile, frame>>

AtStage(r, m) ==
    /\ req[r].pc = "pipeline"
    /\ req[r].stage <= Len(Pipeline)
    /\ Pipeline[req[r].stage] = m

\* call_next of the gate: the request goes on to the next stage
CallNext(q) ==
    [q EXCEPT !.pc = "pipeline", !.stage = q.stage + 1, !.gate = "allow", !.calledNext = TRUE]

Reject(q, msg) ==
    [Respond(q, 401, ErrorBody(msg)) EXCEPT !.gate = "reject"]

\* lines 29-33: allow-listed paths and paths outside '/mcp' go straight to call_next
BearerPath(r) ==
    /\ AtStage(r, "Bearer")
    /\ req[r].gate = "pending"
    /\ IF NeedsAuth(req[r].path)
         THEN /\ req' = [req EXCEPT ![r].pc = "auth_header", ![r].checked = TRUE]
              /\ frame' = [frame EXCEPT ![FrameOf(r)].auth_header = req[r].auth]
         ELSE /\ req' = [req EXCEPT ![r] = CallNext(req[r])]
              /\ UNCHANGED frame
    /\ UNCHANGED <<TOKEN, tenantsFile>>

\* lines 35-41: the scheme check, then token = auth_header.split(' ')[1]
BearerScheme(r) ==
    /\ req[r].pc = "auth_header"
    /\ LET f == FrameOf(r)
           h == frame[f].auth_header
           fields == Split(h.val)
       IN IF Malformed(h)
            THEN /\ req' = [req EXCEPT ![r] = Reject(req[r], ErrMissing)]
                 /\ frame' = [frame EXCEPT ![f] = NoFrame]
            ELSE IF Len(fields) < 2
              THEN \* IndexError: the app's error middleware answers 500
                   /\ req' = [req EXCEPT ![r] =
                                [Respond(req[r], 500, ErrorBody("Internal Server Error"))
                                   EXCEPT !.raised = TRUE]]
                   /\ frame' = [frame EXCEPT ![f] = NoFrame]
              ELSE /\ req' = [req EXCEPT ![r].pc = "auth_token"]
                   /\ frame' = [frame EXCEPT ![f].token = fields[2]]
    /\ UNCHANGED <<TOKEN, tenantsFile>>

\* lines 42-48: token != TOKEN answers 401, otherwise call_next
BearerToken(r) ==
    /\ req[r].pc = "auth_token"
    /\ LET f == FrameOf(r)
       IN /\ IF frame[f].token # TOKEN
               THEN req' = [req EXCEPT ![r] = Reject(req[r], ErrInvalid)]
               ELSE req' = [req EXCEPT ![r] = CallNext(req[r])]
          /\ frame' = [frame EXCEPT ![f] = NoFrame]
    /\ UNCHANGED <<TOKEN, tenantsFile>>

\* dispatch run from its first line to its return for one request on its own
GateAlone(path, auth, secret) ==
    IF ~NeedsAuth(path) THEN [gate |-> "allow", error |-> ""]
    ELSE IF Malformed(auth) THEN [gate |-> "reject", error |-> ErrMissing]
    ELSE IF Split(auth.val)[2] # secret THEN [gate |-> "reject", error |-> ErrInvalid]
    ELSE [gate |-> "allow", error |-> ""]

-----------------------------------------------------------------------------
(* CORSMiddleware as the app configures it (allow_origins=["*"]) *)

PreflightBody == [NoBody EXCEPT !.tag = "text", !.text = "OK"]

\* without an Origin header the request passes untouched; a preflight is answered by
\* the CORS stage itself; any other request goes on, and its response gets the headers
CorsStage(r) ==
    /\ AtStage(r, "CORS")
    /\ LET q == req[r]
       IN req' = [req EXCEPT ![r] =
            CASE q.kind = "plain" -> [q EXCEPT !.stage = q.stage + 1]
              [] q.kind = "preflight" ->
                   [q EXCEPT !.pc = "done",
                             !.resp = [status |-> 200, body |-> PreflightBody, cors |-> TRUE]]
              [] OTHER -> [q EXCEPT !.stage = q.stage + 1, !.corsWrap = TRUE]]
    /\ UNCHANGED <<TOKEN, tenantsFile, frame>>

-----------------------------------------------------------------------------
(* The routes of the app *)

AtRouter(r) == req[r].pc = "pipeline" /\ req[r].stage > Len(Pipeline)

\* Mount("/mcp"): the mount point and everything below it
UnderMount(path) == path = McpPrefix \/ StartsWith(path, McpPrefix \o <<"/">>)

TextBody(t) == [NoBody EXCEPT !.tag = "text", !.text = t]
JsonBody(t) == [NoBody EXCEPT !.tag = "json", !.text = t]

\* @app.route("/")
root(r) ==
    /\ AtRouter(r)
    /\ req[r].path = Root
    /\ req' = [req EXCEPT ![r] = Respond(req[r], 200, TextBody("MCP Server is live"))]
    /\ UNCHANGED <<TOKEN, tenantsFile, frame>>

\* @app.route("/api/discovery")
discovery_endpoint(r) ==
    /\ AtRouter(r)
    /\ req[r].path = ApiDiscovery
    /\ req' = [req EXCEPT ![r] = Respond(req[r], 200, JsonBody("discovery"))]
    /\ UNCHANGED <<TOKEN, tenantsFile, frame>>

\* @app.route("/api/mcp-status"): 200, or 500 when reading the server's registries fails
mcp_status_endpoint(r) ==
    /\ AtRouter(r)
    /\ req[r].path = ApiMcpStatus
    /\ \E ok \in BOOLEAN :
         req' = [req EXCEPT ![r] =
                   IF ok THEN Respond(req[r], 200, JsonBody("healthy"))
                         ELSE Respond(req[r], 500, JsonBody("error"))]
    /\ UNCHANGED <<TOKEN, tenantsFile, frame>>

\* no route matches
NotFound(r) ==
    /\ AtRouter(r)
    /\ req[r].path \notin AllowList
    /\ ~UnderMount(req[r].path)
    /\ req' = [req EXCEPT ![r] = Respond(req[r], 404, TextBody("Not Found"))]
    /\ UNCHANGED <<TOKEN, tenantsFile, frame>>

\* the mounted router hands the request to the protocol app, whose outermost stage is
\* MCPLoggingMiddleware
EnterMount(r) ==
    /\ AtRouter(r)
    /\ UnderMount(req[r].path)
    /\ req' = [req EXCEPT ![r].pc = "mcp"]
    /\ UNCHANGED <<TOKEN, tenantsFile, frame>>

-----------------------------------------------------------------------------
(* MCPLoggingMiddleware.dispatch around the protocol app *)

ResultBody(data) == [NoBody EXCEPT !.tag = "result", !.id = Some(RpcId), !.data = data]
ToolErrorBody(msg) == [NoBody EXCEPT !.tag = "tool_error", !.id = Some(RpcId), !.text = msg]

\* variant: the failure is swallowed into an empty success
OnExceptionSwallow(msg) == [status |-> 200, body |-> ResultBody(<<>>)]

\* the except branch: a JSON-RPC error envelope with id None, status 500
OnException(msg) ==
    [status |-> 500,
     body |-> [NoBody EXCEPT !.tag = "jsonrpc_error", !.code = -32603, !.id = NoId,
                             !.text = "Internal error: ", !.data = msg]]

\* try: return await call_next(request); except Exception as e: the error envelope
LoggingDispatch(q, outcome) ==
    IF outcome.raised
      THEN LET e == OnException(outcome.msg)
           IN [Respond(q, e.status, e.body) EXCEPT !.raised = TRUE]
      ELSE Respond(q, 200, outcome.body)

Returns(body) == [raised |-> FALSE, msg |-> "", body |-> body]
Raises(msg) == [raised |-> TRUE, msg |-> msg, body |-> NoBody]

\* the protocol app fails with an unexpected exception
McpFault(r) ==
    /\ req[r].pc = "mcp"
    /\ \E m \in Faults :
         req' = [req EXCEPT ![r] = LoggingDispatch([req[r] EXCEPT !.rpc = "fault", !.exc = m], Raises(m))]
    /\ UNCHANGED <<TOKEN, tenantsFile, frame>>

\* handle_initialize: the static capability descriptor
handle_initialize(r) ==
    /\ req[r].pc = "mcp"
    /\ req' = [req EXCEPT ![r] =
                 LoggingDispatch([req[r] EXCEPT !.rpc = "initialize"],
                                 Returns(ResultBody(<<"2024-11-05">>)))]
    /\ UNCHANGED <<TOKEN, tenantsFile, frame>>

-----------------------------------------------------------------------------
(* load_csv and the tenant-list resource *)

SampleRows ==
    << [id |-> "1", name |-> "Acme Corp"],
       [id |-> "2", name |-> "Global Industries"],
       [id |-> "3", name |-> "StartupCo"] >>

\* load_csv("tenants"): a missing file is first written with the sample rows, then the
\* file is read whole; a file that cannot be read gives the empty list
load_csv(file) ==
    CASE file = "missing" -> [rows |-> SampleRows, file |-> "sample"]
      [] file = "sample" -> [rows |-> SampleRows, file |-> "sample"]
      [] OTHER -> [rows |-> <<>>, file |-> file]

\* list_tenants(): takes no argument and returns the list load_csv gives, as it is
list_tenants(file) ==
    LET l == load_csv(file)
    IN [value |-> [shape |-> "list", rows |-> l.rows], file |-> l.file]

\* resources/read ops://tenant/list; the resource has no parameter a cursor could go to
ReadTenantList(r) ==
    /\ req[r].pc = "mcp"
    /\ \E c \in Cursors :
         LET out == list_tenants(tenantsFile)
         IN /\ req' = [req EXCEPT ![r] =
                         LoggingDispatch([req[r] EXCEPT !.rpc = "tenant_list", !.cursor = c],
                                         Returns(ResultBody(out.value)))]
            /\ tenantsFile' = out.file
    /\ UNCHANGED <<TOKEN, frame>>

-----------------------------------------------------------------------------
(* compute_health *)

UTC == 0

\* datetime.fromisoformat: the wall-clock fields, and tzinfo when the string has an offset
fromisoformat(s) == [wall |-> s.wall, tzinfo |-> s.offset]

\* datetime.replace(tzinfo=tz): the same wall-clock fields under another tzinfo
replace_tzinfo(dt, tz) == [dt EXCEPT !.tzinfo = Some(tz)]

\* the instant of an aware datetime, in ticks since the epoch
Timestamp(dt) == dt.wall - dt.tzinfo.val

\* (a - b).total_seconds() of two aware datetimes
TotalSeconds(a, b) == Timestamp(a) - Timestamp(b)

\* variant: the boundary is exclusive
SlaMetStrict(elapsed, threshold_seconds) == elapsed < threshold_seconds

\* line 213
SlaMet(elapsed, threshold_seconds) == elapsed <= threshold_seconds

compute_health(createdAt, threshold_seconds, clock) ==
    LET created == replace_tzinfo(fromisoformat(createdAt), UTC)
        now == [wall |-> clock, tzinfo |-> Some(UTC)]
        elapsed == TotalSeconds(now, created)
    IN [slaMet |-> SlaMet(elapsed, threshold_seconds),
        elapsed |-> elapsed,
        threshold |-> threshold_seconds]

\* tools/call compute_health; a createdAt that does not parse fails this call only
CallComputeHealth(r) ==
    /\ req[r].pc = "mcp"
    /\ \E c \in CreatedAts, t \in Thresholds, n \in Clock :
         LET q == [req[r] EXCEPT !.rpc = "compute_health", !.createdAt = c,
                                 !.threshold = t, !.now = n]
         IN req' = [req EXCEPT ![r] =
                      IF c.valid
                        THEN LoggingDispatch(q, Returns(ResultBody(compute_health(c, t, n))))
                        ELSE LoggingDispatch(q, Returns(ToolErrorBody("Invalid isoformat string")))]
    /\ UNCHANGED <<TOKEN, tenantsFile, frame>>

-----------------------------------------------------------------------------
(* The state machine *)

\* the response is sent and the connection is over
Close(r) ==
    /\ req[r].pc = "done"
    /\ req' = [req EXCEPT ![r] = Idle]
    /\ UNCHANGED <<TOKEN, tenantsFile, frame>>

Init ==
    /\ TOKEN \in Tokens
    /\ tenantsFile \in {"missing", "unreadable"}
    /\ req = [r \in Slots |-> Idle]
    /\ frame = [r \in Slots |-> NoFrame]

\* one request at a time, over all the inputs
Next ==
    \E r \in {1} :
       \/ Receive(r, Paths, AuthHeaders, Kinds)
       \/ BearerPath(r)
       \/ BearerScheme(r)
       \/ BearerToken(r)
       \/ CorsStage(r)
       \/ root(r)
       \/ discovery_endpoint(r)
       \/ mcp_status_endpoint(r)
       \/ NotFound(r)
       \/ EnterMount(r)
       \/ McpFault(r)
       \/ handle_initialize(r)
       \/ ReadTenantList(r)
       \/ CallComputeHealth(r)
       \/ Close(r)

Spec == Init /\ [][Next]_vars

\* the inputs of the concurrent specification
ConcPaths == {Root, McpPrefix, McpPrefix \o <<"x">>, <<"/","o","t","h","e","r">>}
ConcHeaders == {None, Some(BearerSp \o DevToken), Some(BearerSp \o <<"d","e","v">>)}

\* no request of the concurrent specification reads the tenants file
InitConc == Init /\ tenantsFile = "missing"

\* requests in flight together, their steps interleaved in any order
NextConc ==
    \E r \in Slots :
       \/ Receive(r, ConcPaths, ConcHeaders, {"cors"})
       \/ BearerPath(r)
       \/ BearerScheme(r)
       \/ BearerToken(r)
       \/ CorsStage(r)
       \/ root(r)
       \/ NotFound(r)
       \/ EnterMount(r)
       \/ McpFault(r)
       \/ handle_initialize(r)
       \/ Close(r)

SpecConc == InitConc /\ [][NextConc]_vars

-----------------------------------------------------------------------------
(* The claims *)

\* the path has the string prefix '/mcp'
HasMcpPrefix(p) == Len(p) >= 4 /\ p[1] = "/" /\ p[2] = "m" /\ p[3] = "c" /\ p[4] = "p"

\* the header value begins with 'Bearer '
BeginsBearer(h) ==
    /\ h.some
    /\ Len(h.val) >= 7
    /\ SubSeq(h.val, 1, 7) = <<"B","e","a","r","e","r"," ">>

\* what follows 'Bearer ' in the header value, whole
Remainder(h) == SubSeq(h.val, 8, Len(h.val))

InFlight(q) == q.pc # "idle"
PastGate(q) == q.pc = "mcp" \/ (q.pc = "pipeline" /\ q.stage > 1)

\* C1: a request under /mcp whose Authorization header is absent or does not begin with
\* 'Bearer ' never gets past the gate (call_next is not invoked, no handler and no
\* protocol operation runs for it), and the answer it gets is 401 with the error
\* 'Missing or invalid Authorization header'.
C1_MissingOrMalformedRejected ==
    \A r \in Slots :
       LET q == req[r]
       IN (InFlight(q) /\ HasMcpPrefix(q.path) /\ ~BeginsBearer(q.auth)) =>
            /\ ~q.calledNext
            /\ ~PastGate(q)
            /\ q.rpc = "none"
            /\ q.gate # "allow"
            /\ q.pc = "done" =>
                 /\ q.gate = "reject"
                 /\ q.resp.status = 401
                 /\ q.resp.body.tag = "error"
                 /\ q.resp.body.text = "Missing or invalid Authorization header"

\* C1 witness: POST /mcp with 'Basic dev-token' has been answered 401
C1_Witness ==
    \E r \in Slots :
       /\ req[r].pc = "done"
       /\ req[r].path = <<"/","m","c","p">>
       /\ req[r].auth = Some(<<"B","a","s","i","c"," ">> \o DevToken)
       /\ req[r].resp.status = 401

\* C2 (as claimed): under /mcp, with a header that begins with 'Bearer ', the gate lets
\* the request through if and only if the whole remainder of the header value equals
\* TOKEN; otherwise it answers 401 'Invalid bearer token' before call_next.
C2_PassIffRemainderIsToken ==
    \A r \in Slots :
       LET q == req[r]
       IN (q.gate # "pending" /\ HasMcpPrefix(q.path) /\ BeginsBearer(q.auth)) =>
            /\ (q.gate = "allow") <=> (Remainder(q.auth) = TOKEN)
            /\ q.gate = "reject" =>
                 /\ ~q.calledNext
                 /\ q.resp.status = 401
                 /\ q.resp.body.text = "Invalid bearer token"

\* C3 (as claimed): every response to a request that carries an Origin header has
\* passed the CORS stage and carries the CORS headers, the gate's 401 and the answer
\* to a preflight without Authorization included.
C3_EveryResponseCarriesCors ==
    \A r \in Slots :
       LET q == req[r]
       IN (q.pc = "done" /\ q.kind # "plain") => q.resp.cors

\* C4: on '/', '/api/discovery' and '/api/mcp-status' the gate never examines the
\* header, never answers 401, and hands the request to call_next, whatever the
\* Authorization header is.
C4_AllowListBypasses ==
    \A r \in Slots :
       LET q == req[r]
       IN (InFlight(q) /\ q.path \in {Root, ApiDiscovery, ApiMcpStatus}) =>
            /\ q.gate # "reject"
            /\ ~q.checked
            /\ q.resp.status # 401
            /\ q.pc \notin {"auth_header", "auth_token"}
            /\ (q.pc = "done" \/ PastGate(q)) => (q.calledNext /\ q.gate = "allow")

\* C4 witness: GET / with a wrong bearer token has been served by the root handler
C4_Witness ==
    \E r \in Slots :
       /\ req[r].pc = "done"
       /\ req[r].path = Root
       /\ req[r].auth = Some(BearerSp \o <<"d","e","v">>)
       /\ req[r].calledNext
       /\ req[r].resp.status = 200
       /\ req[r].resp.body.tag = "text"

Instant(c) == c.wall - (IF c.offset.some THEN c.offset.val ELSE 0)

\* C6 (as claimed): createdAt is an absolute point in time, so elapsed is the clock
\* reading minus the instant createdAt denotes, whatever offset it is written with.
C6_ElapsedFromAbsoluteInstant ==
    \A r \in Slots :
       LET q == req[r]
       IN (q.pc = "done" /\ q.rpc = "compute_health" /\ q.createdAt.valid) =>
            q.resp.body.data.elapsed = q.now - Instant(q.createdAt)

\* C7: with requests in flight together and their steps interleaved in any order, the
\* gate's outcome for each request (allow, or 401 and which error) is the one dispatch
\* gives that request alone, and the locals of a finished dispatch are gone.
C7_OutcomeAsIfAlone ==
    \A r \in Slots :
       LET q == req[r]
           alone == GateAlone(q.path, q.auth, TOKEN)
       IN q.gate # "pending" =>
            /\ q.gate = alone.gate
            /\ q.gate = "reject" => (q.resp.status = 401 /\ q.resp.body.text = alone.error)
            /\ q.calledNext = (q.gate = "allow")

\* C7 witness: two requests under /mcp in flight together, one let through and now in
\* the protocol app, the other rejected
C7_Witness ==
    \E r1, r2 \in Slots :
       /\ r1 # r2
       /\ req[r1].pc = "mcp" /\ req[r1].checked /\ req[r1].gate = "allow"
       /\ req[r2].pc = "done" /\ req[r2].checked /\ req[r2].gate = "reject"

\* C8: when the protocol app raises an unexpected exception for a request that passed
\* the gate, the response is the JSON-RPC error envelope (jsonrpc 2.0, id null, error
\* code -32603, message 'Internal error: ' followed by the exception's message) with
\* status 500, never a success.
C8_FaultGivesInternalErrorEnvelope ==
    \A r \in Slots :
       LET q == req[r]
       IN (q.pc = "done" /\ q.rpc = "fault") =>
            /\ q.calledNext
            /\ q.resp.status = 500
            /\ q.resp.body.tag = "jsonrpc_error"
            /\ q.resp.body.code = -32603
            /\ q.resp.body.id = [some |-> FALSE, val |-> 0]
            /\ q.resp.body.text = "Internal error: "
            /\ q.resp.body.data = q.exc

\* C8 witness: an authenticated POST /mcp whose handling raised has been answered
C8_Witness ==
    \E r \in Slots :
       /\ req[r].pc = "done"
       /\ req[r].rpc = "fault"
       /\ req[r].exc = "Task group is not initialized"
       /\ req[r].gate = "allow" /\ req[r].checked

\* C9 (as claimed): reading ops://tenant/list returns a PaginatedResult envelope
\* {items, nextCursor}, whether or not a cursor was sent.
C9_TenantListIsPaginatedResult ==
    \A r \in Slots :
       LET q == req[r]
       IN (q.pc = "done" /\ q.rpc = "tenant_list") =>
            q.resp.body.data.shape = "PaginatedResult"

\* C10: the gate examines the Authorization header exactly when the path is not
\* allow-listed and has the string prefix '/mcp' ('/mcp', '/mcp/', '/mcp/x', '/mcpx');
\* every other path goes to call_next unexamined, whatever its headers.
C10_CheckedIffUnderPrefix ==
    \A r \in Slots :
       LET q == req[r]
       IN q.gate # "pending" =>
            /\ q.checked <=>
                 (HasMcpPrefix(q.path) /\ q.path \notin {Root, ApiDiscovery, ApiMcpStatus})
            /\ q.path \in { <<"/","m","c","p">>, <<"/","m","c","p","/">>,
                            <<"/","m","c","p","/","x">>, <<"/","m","c","p","x">> }
                 => q.checked
            /\ ~q.checked => (q.gate = "allow" /\ q.calledNext)

\* C10 witness: '/mcpx' without a header has been examined and rejected
C10_Witness ==
    \E r \in Slots :
       /\ req[r].pc = "done"
       /\ req[r].path = <<"/","m","c","p","x">>
       /\ req[r].checked
       /\ req[r].gate = "reject"

=============================================================================
